---- MODULE Spec2Model ----
(***************************************************************************)
(* Model of the Jellyfin media organizer: the tool-augmented conversation  *)
(* loop (src/main.go), the path sandbox (ValidatePath) and the filesystem  *)
(* tools (read_file, list_directory, copy_file, rename_jellyfin_media).    *)
(*                                                                         *)
(* A Go string is a sequence of one-character strings, so that the         *)
(* substring and prefix tests of the code are computed, not assumed.       *)
(***************************************************************************)
EXTENDS Integers, Sequences, FiniteSets, TLC

VARIABLES
    env,            \* process environment: shows, movies, source, cwd
    fs,             \* filesystem: canonical path (sequence of names) -> entry
    pc,             \* position of the conversation loop
    convo,          \* conversation history ([]anthropic.MessageParam)
    message,        \* content blocks of the model response being processed
    idx,            \* index of the next content block of message to process
    toolResults,    \* tool-result blocks collected for the current response
    readUserInput,  \* the loop's flag of the same name
    linesLeft,      \* operator lines still available on stdin before EOF
    nBlocks,        \* number of content blocks the model has produced so far
    prog,           \* which program runs: "Run" or "RunWithInitialPrompt"
    last,           \* the most recent tool handler invocation and its outcome
    nCalls,         \* number of direct tool invocations (tool-level runs)
    vp,             \* input and outcome of a direct ValidatePath evaluation
    request         \* the parameters of the most recent model call

vars == <<env, fs, pc, convo, message, idx, toolResults, readUserInput,
          linesLeft, nBlocks, prog, last, nCalls, vp, request>>

----------------------------------------------------------------------------
(* Bounds of the model.                                                    *)

MaxPathLen == 5
MaxBlocks == 2
MaxLines == 2
MaxCalls == 1

----------------------------------------------------------------------------
(* Go strings.                                                             *)

PathChars == {"/", ".", "m", "x"}

RECURSIVE StringsUpTo(_)
StringsUpTo(n) ==
    IF n = 0 THEN {<<>>}
    ELSE LET shorter == StringsUpTo(n - 1)
         IN  shorter \cup {Append(s, c) : s \in {t \in shorter : Len(t) = n - 1}, c \in PathChars}

\* strings.Contains(s, "..")
ContainsDotDot(s) ==
    \E i \in 1..(Len(s) - 1) : s[i] = "." /\ s[i + 1] = "."

\* strings.HasPrefix(s, prefix)
HasPrefix(s, prefix) ==
    /\ Len(prefix) <= Len(s)
    /\ SubSeq(s, 1, Len(prefix)) = prefix

RECURSIVE SplitAcc(_, _, _)
SplitAcc(s, cur, acc) ==
    IF s = <<>> THEN Append(acc, cur)
    ELSE IF Head(s) = "/" THEN SplitAcc(Tail(s), <<>>, Append(acc, cur))
    ELSE SplitAcc(Tail(s), Append(cur, Head(s)), acc)

\* The "/"-separated elements of a path string, empty elements included.
Split(s) == SplitAcc(s, <<>>, <<>>)

DotSeg == <<".">>
DotDotSeg == <<".", ".">>

IsAbs(p) == p # <<>> /\ Head(p) = "/"

\* filepath.Clean's processing of the elements: "" and "." are dropped, ".."
\* removes the element before it (at the root of a rooted path it is dropped,
\* at the start of a relative path it is kept).
RECURSIVE CleanSegs(_, _, _)
CleanSegs(segs, stack, rooted) ==
    IF segs = <<>> THEN stack
    ELSE LET seg == Head(segs)
             rest == Tail(segs)
         IN  IF seg = <<>> \/ seg = DotSeg THEN CleanSegs(rest, stack, rooted)
             ELSE IF seg = DotDotSeg
                  THEN IF stack # <<>> /\ stack[Len(stack)] # DotDotSeg
                       THEN CleanSegs(rest, SubSeq(stack, 1, Len(stack) - 1), rooted)
                       ELSE IF rooted THEN CleanSegs(rest, stack, rooted)
                       ELSE CleanSegs(rest, Append(stack, seg), rooted)
             ELSE CleanSegs(rest, Append(stack, seg), rooted)

RECURSIVE JoinSegs(_)
JoinSegs(segs) ==
    IF segs = <<>> THEN <<>>
    ELSE IF Len(segs) = 1 THEN Head(segs)
    ELSE Head(segs) \o <<"/">> \o JoinSegs(Tail(segs))

\* filepath.Clean
Clean(p) ==
    IF p = <<>> THEN DotSeg
    ELSE LET rooted == IsAbs(p)
             body == JoinSegs(CleanSegs(Split(p), <<>>, rooted))
         IN  IF rooted THEN <<"/">> \o body
             ELSE IF body = <<>> THEN DotSeg ELSE body

\* filepath.Join(a, b): empty elements are ignored, the rest joined and cleaned.
Join(a, b) ==
    IF a = <<>> /\ b = <<>> THEN <<>>
    ELSE IF a = <<>> THEN Clean(b)
    ELSE IF b = <<>> THEN Clean(a)
    ELSE Clean(a \o <<"/">> \o b)

\* filepath.Abs under working directory cwd
Abs(p, cwd) == IF IsAbs(p) THEN Clean(p) ELSE Join(cwd, p)

\* filepath.Dir: the path up to its last separator, cleaned.
LastSlash(p) ==
    LET at == {i \in 1..Len(p) : p[i] = "/"}
    IN  IF at = {} THEN 0 ELSE CHOOSE i \in at : \A j \in at : j <= i

Dir(p) == Clean(SubSeq(p, 1, LastSlash(p)))

\* The canonical form of an absolute, cleaned path: its sequence of names.
Names(absPath) == CleanSegs(Split(absPath), <<>>, TRUE)

\* Containment as the specification defines it: equal to the root or a
\* path-segment descendant of it.
IsSegPrefix(r, c) == Len(r) <= Len(c) /\ SubSeq(c, 1, Len(r)) = r

----------------------------------------------------------------------------
(* Errors and texts: a fixed message, an optional wrapped chain of        *)
(* prefixes, and the string arguments formatted into it.                   *)

Nil == [parts |-> <<>>, args |-> <<>>]

Errorf(part, arg) == [parts |-> <<part>>, args |-> <<arg>>]

Error(part) == [parts |-> <<part>>, args |-> <<>>]

\* fmt.Errorf(prefix + "%v", err)
Wrap(prefix, err) == [parts |-> <<prefix>> \o err.parts, args |-> err.args]

----------------------------------------------------------------------------
(* The path sandbox.                                                       *)

PermittedFolders(e) == <<e.shows, e.movies, e.source>>

\* A check that resolves an unset root like any other, to the working
\* directory.
ValidatePathKeepsEmpty(inputPath, e) ==
    IF ContainsDotDot(inputPath)
    THEN Errorf("path contains invalid directory traversal: ", inputPath)
    ELSE LET absPath == Abs(inputPath, e.cwd)
             permittedFolders == PermittedFolders(e)
         IN  IF \E i \in 1..Len(permittedFolders) :
                    HasPrefix(absPath, Abs(permittedFolders[i], e.cwd))
             THEN Nil
             ELSE Errorf("path is not within permitted folders: ", inputPath)

ValidatePath(inputPath, e) ==
    IF ContainsDotDot(inputPath)
    THEN Errorf("path contains invalid directory traversal: ", inputPath)
    ELSE LET absPath == Abs(inputPath, e.cwd)
             permittedFolders == PermittedFolders(e)
         IN  IF \E i \in 1..Len(permittedFolders) :
                    /\ permittedFolders[i] # <<>>
                    /\ HasPrefix(absPath, Abs(permittedFolders[i], e.cwd))
             THEN Nil
             ELSE Errorf("path is not within permitted folders: ", inputPath)

----------------------------------------------------------------------------
(* The filesystem as the os package presents it. A canonical path is the   *)
(* sequence of names from the root directory (<<>>). There are no symbolic *)
(* links.                                                                  *)

DirEntry == [kind |-> "dir", content |-> <<>>]

FileEntry(content) == [kind |-> "file", content |-> content]

Parent(q) == IF q = <<>> THEN q ELSE SubSeq(q, 1, Len(q) - 1)

\* The kernel's resolution of the elements of a path from the position cur.
\* err is "" when the path names an existing entry; creatable tells that only
\* the final name is missing, in an existing directory.
RECURSIVE Walk(_, _, _)
Walk(f, segs, cur) ==
    IF segs = <<>>
    THEN [err |-> IF cur \in DOMAIN f THEN "" ELSE "ENOENT", at |-> cur,
          creatable |-> cur \notin DOMAIN f]
    ELSE IF cur \notin DOMAIN f
         THEN [err |-> "ENOENT", at |-> cur, creatable |-> FALSE]
    ELSE IF f[cur].kind # "dir"
         THEN [err |-> "ENOTDIR", at |-> cur, creatable |-> FALSE]
    ELSE LET seg == Head(segs)
         IN  IF seg = <<>> \/ seg = DotSeg THEN Walk(f, Tail(segs), cur)
             ELSE IF seg = DotDotSeg THEN Walk(f, Tail(segs), Parent(cur))
             ELSE Walk(f, Tail(segs), Append(cur, seg))

Resolve(f, p, cwd) ==
    IF p = <<>> THEN [err |-> "ENOENT", at |-> <<>>, creatable |-> FALSE]
    ELSE Walk(f, Split(p), IF IsAbs(p) THEN <<>> ELSE Names(cwd))

\* os.Stat: "" (found), "ENOENT" (os.IsNotExist) or "ENOTDIR".
Stat(f, p, cwd) == Resolve(f, p, cwd).err

\* os.MkdirAll on a cleaned path: every missing directory on the way is
\* created, unless an entry on the way is a file.
MkdirAll(f, p, cwd) ==
    LET tgt == Names(Abs(p, cwd))
        chain == {SubSeq(tgt, 1, n) : n \in 0..Len(tgt)}
        missing == {q \in chain : q \notin DOMAIN f}
    IN  IF p = <<>> THEN [err |-> "ENOENT", fs |-> f]
        ELSE IF \E q \in chain : q \in DOMAIN f /\ f[q].kind # "dir"
        THEN [err |-> "ENOTDIR", fs |-> f]
        ELSE [err |-> "",
              fs |-> [q \in DOMAIN f \cup missing |->
                        IF q \in missing THEN DirEntry ELSE f[q]]]

\* os.Open (read-only): directories can be opened too.
Open(f, p, cwd) == Resolve(f, p, cwd)

\* os.Create: O_CREATE|O_TRUNC, the file is emptied when it exists.
Create(f, p, cwd) ==
    LET r == Resolve(f, p, cwd)
    IN  IF r.err = "" /\ f[r.at].kind = "dir" THEN [err |-> "EISDIR", at |-> r.at, fs |-> f]
        ELSE IF r.err = "" \/ r.creatable
        THEN [err |-> "", at |-> r.at,
              fs |-> [q \in DOMAIN f \cup {r.at} |->
                        IF q = r.at THEN FileEntry(<<>>) ELSE f[q]]]
        ELSE [err |-> r.err, at |-> r.at, fs |-> f]

\* Writing the whole of content to the open file at canonical path q.
WriteAll(f, q, content) == [f EXCEPT ![q] = FileEntry(content)]

Under(q, root) == Len(root) <= Len(q) /\ SubSeq(q, 1, Len(root)) = root

\* A rename that leaves the source entries where they were.
RenameLeavesSource(f, src, dst, cwd) ==
    LET rs == Resolve(f, src, cwd)
        rd == Resolve(f, dst, cwd)
        moved == {q \in DOMAIN f : Under(q, rs.at)}
        Moved(q) == rd.at \o SubSeq(q, Len(rs.at) + 1, Len(q))
        landed == {Moved(q) : q \in moved}
        Origin(t) == CHOOSE q \in moved : Moved(q) = t
    IN  IF rs.err # "" THEN [err |-> rs.err, fs |-> f]
        ELSE IF rd.err # "" /\ ~rd.creatable THEN [err |-> rd.err, fs |-> f]
        ELSE [err |-> "",
              fs |-> [t \in DOMAIN f \cup landed |->
                        IF t \in landed THEN f[Origin(t)] ELSE f[t]]]

\* os.Rename: the entry at src and everything under it move to dst.
Rename(f, src, dst, cwd) ==
    LET rs == Resolve(f, src, cwd)
        rd == Resolve(f, dst, cwd)
        moved == {q \in DOMAIN f : Under(q, rs.at)}
        Moved(q) == rd.at \o SubSeq(q, Len(rs.at) + 1, Len(q))
        kept == {q \in DOMAIN f : ~Under(q, rs.at) /\ ~Under(q, rd.at)}
        landed == {Moved(q) : q \in moved}
        Origin(t) == CHOOSE q \in moved : Moved(q) = t
    IN  IF rs.err # "" THEN [err |-> rs.err, fs |-> f]
        ELSE IF rd.err # "" /\ ~rd.creatable THEN [err |-> rd.err, fs |-> f]
        ELSE IF rs.at = rd.at THEN [err |-> "", fs |-> f]
        ELSE IF rs.at = <<>> THEN [err |-> "EBUSY", fs |-> f]
        ELSE IF Under(rd.at, rs.at) THEN [err |-> "EINVAL", fs |-> f]
        ELSE IF rd.err = "" /\ f[rd.at].kind = "dir" /\ f[rs.at].kind # "dir"
        THEN [err |-> "EISDIR", fs |-> f]
        ELSE IF rd.err = "" /\ f[rd.at].kind # "dir" /\ f[rs.at].kind = "dir"
        THEN [err |-> "ENOTDIR", fs |-> f]
        ELSE IF rd.err = "" /\ \E q \in DOMAIN f : Under(q, rd.at) /\ q # rd.at
        THEN [err |-> "ENOTEMPTY", fs |-> f]
        ELSE [err |-> "",
              fs |-> [t \in kept \cup landed |->
                        IF t \in landed THEN f[Origin(t)] ELSE f[t]]]

\* The error of a failed os call, as err.Error() renders it.
OsError(op, p, errno) == [parts |-> <<op, " ", ": ", errno>>, args |-> <<p>>]

----------------------------------------------------------------------------
(* Tool handlers. A handler returns (response, err); the model adds the    *)
(* filesystem it leaves, the os calls it made (ops), the path arguments    *)
(* that its containment check accepted (checked), and whether it panicked. *)

Ret(response, err, f, ops, checked) ==
    [response |-> response, err |-> err, fs |-> f, ops |-> ops,
     checked |-> checked, panicked |-> FALSE]

Panic(f, ops, checked) ==
    [response |-> Nil, err |-> Nil, fs |-> f, ops |-> ops,
     checked |-> checked, panicked |-> TRUE]

\* An os call on path p, which the handler took from its argument arg.
OpOf(name, p, arg) == [op |-> name, path |-> p, arg |-> arg]

Op(name, p) == OpOf(name, p, p)

Text(s) == [parts |-> <<>>, args |-> <<s>>]

\* json.Unmarshal's error on a payload that does not fit the input struct.
UnmarshalError == Error("json: cannot unmarshal")

Malformed == [valid |-> FALSE]

UpperCase == <<"A", "B", "C", "D", "E", "F", "G", "H", "I", "J", "K", "L", "M",
               "N", "O", "P", "Q", "R", "S", "T", "U", "V", "W", "X", "Y", "Z">>

LowerCase == <<"a", "b", "c", "d", "e", "f", "g", "h", "i", "j", "k", "l", "m",
               "n", "o", "p", "q", "r", "s", "t", "u", "v", "w", "x", "y", "z">>

\* strings.ToLower
ToLower(s) ==
    [i \in 1..Len(s) |->
        IF \E k \in 1..26 : UpperCase[k] = s[i]
        THEN LowerCase[CHOOSE k \in 1..26 : UpperCase[k] = s[i]]
        ELSE s[i]]

\* filepath.Ext: from the last dot of the last element.
Ext(p) ==
    LET dots == {i \in 1..Len(p) : p[i] = "." /\ \A j \in i..Len(p) : p[j] # "/"}
    IN  IF dots = {} THEN <<>>
        ELSE SubSeq(p, CHOOSE i \in dots : \A j \in dots : j <= i, Len(p))

imageVideoExts ==
    <<
      <<".", "j", "p", "g">>, <<".", "j", "p", "e", "g">>, <<".", "p", "n", "g">>,
      <<".", "g", "i", "f">>, <<".", "b", "m", "p">>, <<".", "w", "e", "b", "p">>,
      <<".", "s", "v", "g">>, <<".", "t", "i", "f", "f">>, <<".", "t", "i", "f">>,
      <<".", "i", "c", "o">>, <<".", "m", "p", "4">>, <<".", "a", "v", "i">>,
      <<".", "m", "k", "v">>, <<".", "m", "o", "v">>, <<".", "w", "m", "v">>,
      <<".", "f", "l", "v">>, <<".", "w", "e", "b", "m">>, <<".", "m", "4", "v">>,
      <<".", "3", "g", "p">>, <<".", "o", "g", "v">>, <<".", "v", "o", "b">>,
      <<".", "t", "s">>, <<".", "m", "t", "s">>, <<".", "m", "2", "t", "s">>
    >>

Min(a, b) == IF a <= b THEN a ELSE b

ReadFileInput(path, bytes) == [valid |-> TRUE, path |-> path, bytes |-> bytes]

\* A prefix read that returns the end of the file as an error.
ReadFilePrefixEofFails(filePath, bytes, f, r) ==
    IF r.err # ""
    THEN Ret(Nil, OsError("open", filePath, r.err), f,
             <<Op("Open", filePath)>>, {filePath})
    ELSE IF bytes < 0 THEN Panic(f, <<Op("Open", filePath)>>, {filePath})
    ELSE IF f[r.at].kind = "dir"
    THEN Ret(Nil, OsError("read", filePath, "EISDIR"), f,
             <<Op("Open", filePath), Op("Read", filePath)>>, {filePath})
    ELSE IF f[r.at].content = <<>>
    THEN Ret(Nil, Error("EOF"), f,
             <<Op("Open", filePath), Op("Read", filePath)>>, {filePath})
    ELSE Ret(Text(SubSeq(f[r.at].content, 1, Min(bytes, Len(f[r.at].content)))),
             Nil, f, <<Op("Open", filePath), Op("Read", filePath)>>, {filePath})

\* os.Open, make([]byte, Bytes), file.Read: a negative length panics, the
\* end of the file is not an error.
ReadFilePrefix(filePath, bytes, f, r) ==
    IF r.err # ""
    THEN Ret(Nil, OsError("open", filePath, r.err), f,
             <<Op("Open", filePath)>>, {filePath})
    ELSE IF bytes < 0 THEN Panic(f, <<Op("Open", filePath)>>, {filePath})
    ELSE IF f[r.at].kind = "dir"
    THEN Ret(Nil, OsError("read", filePath, "EISDIR"), f,
             <<Op("Open", filePath), Op("Read", filePath)>>, {filePath})
    ELSE Ret(Text(SubSeq(f[r.at].content, 1, Min(bytes, Len(f[r.at].content)))),
             Nil, f, <<Op("Open", filePath), Op("Read", filePath)>>, {filePath})

\* os.ReadFile
ReadFileWhole(filePath, f, r) ==
    IF r.err # ""
    THEN Ret(Nil, OsError("open", filePath, r.err), f,
             <<Op("ReadFile", filePath)>>, {filePath})
    ELSE IF f[r.at].kind = "dir"
    THEN Ret(Nil, OsError("read", filePath, "EISDIR"), f,
             <<Op("ReadFile", filePath)>>, {filePath})
    ELSE Ret(Text(f[r.at].content), Nil, f, <<Op("ReadFile", filePath)>>, {filePath})

\* The containment check, then the extension denylist, then the read.
ReadFileValidate(filePath, bytes, f, e, err, ext) ==
    IF err # Nil THEN Ret(Nil, Wrap("access denied: ", err), f, <<>>, {})
    ELSE IF \E i \in 1..Len(imageVideoExts) : ext = imageVideoExts[i]
    THEN Ret(Nil, Errorf("cannot read image or video files: ", filePath), f,
             <<>>, {filePath})
    ELSE IF bytes = 0 THEN ReadFileWhole(filePath, f, Resolve(f, filePath, e.cwd))
    ELSE ReadFilePrefix(filePath, bytes, f, Resolve(f, filePath, e.cwd))

ReadFile(input, f, e) ==
    IF ~input.valid
    THEN Ret(Nil, Wrap("failed to unmarshal input: ", UnmarshalError), f, <<>>, {})
    ELSE ReadFileValidate(input.path, input.bytes, f, e,
                          ValidatePath(input.path, e), ToLower(Ext(input.path)))

CopyFileInput(initial_path, ending_path) ==
    [valid |-> TRUE, initial_path |-> initial_path, ending_path |-> ending_path]

CopiedText(srcPath, dstPath) ==
    [parts |-> <<"Successfully copied file from ", " to ">>,
     args |-> <<srcPath, dstPath>>]

\* io.Copy and the return: the source is read as it is after os.Create.
CopyFileCopy(srcPath, dstPath, srcFile, dstFile, ops) ==
    IF dstFile.fs[srcFile.at].kind = "dir"
    THEN Ret(Nil, Wrap("failed to copy file contents: ",
                       OsError("read", srcPath, "EISDIR")),
             dstFile.fs, Append(ops, Op("Copy", dstPath)), {dstPath})
    ELSE Ret(CopiedText(srcPath, dstPath), Nil,
             WriteAll(dstFile.fs, dstFile.at, dstFile.fs[srcFile.at].content),
             Append(ops, Op("Copy", dstPath)), {dstPath})

\* os.Create(dstPath)
CopyFileCreate(srcPath, dstPath, srcFile, dstFile, ops) ==
    IF dstFile.err # ""
    THEN Ret(Nil, Wrap("failed to create destination file: ",
                       OsError("open", dstPath, dstFile.err)),
             dstFile.fs, ops, {dstPath})
    ELSE CopyFileCopy(srcPath, dstPath, srcFile, dstFile, ops)

\* os.Open(srcPath)
CopyFileOpen(srcPath, dstPath, f, e, srcFile, ops) ==
    IF srcFile.err # ""
    THEN Ret(Nil, Wrap("failed to open source file: ",
                       OsError("open", srcPath, srcFile.err)), f, ops, {dstPath})
    ELSE CopyFileCreate(srcPath, dstPath, srcFile, Create(f, dstPath, e.cwd),
                        Append(ops, Op("Create", dstPath)))

\* os.MkdirAll(filepath.Dir(dstPath))
CopyFileMkdir(srcPath, dstPath, dstDir, e, mk, ops) ==
    IF mk.err # ""
    THEN Ret(Nil, Wrap("failed to create destination directory: ",
                       OsError("mkdir", dstDir, mk.err)), mk.fs, ops, {dstPath})
    ELSE CopyFileOpen(srcPath, dstPath, mk.fs, e, Open(mk.fs, srcPath, e.cwd),
                      Append(ops, Op("Open", srcPath)))

\* os.Stat(srcPath)
CopyFileStat(srcPath, dstPath, f, e, st) ==
    IF st = "ENOENT"
    THEN Ret(Nil, Errorf("source file does not exist: ", srcPath), f,
             <<Op("Stat", srcPath)>>, {dstPath})
    ELSE CopyFileMkdir(srcPath, dstPath, Dir(dstPath), e,
                       MkdirAll(f, Dir(dstPath), e.cwd),
                       <<Op("Stat", srcPath), OpOf("MkdirAll", Dir(dstPath), dstPath)>>)

\* The destination is validated, the source is not.
CopyFileValidate(srcPath, dstPath, f, e, err) ==
    IF err # Nil THEN Ret(Nil, err, f, <<>>, {})
    ELSE CopyFileStat(srcPath, dstPath, f, e, Stat(f, srcPath, e.cwd))

CopyFile(input, f, e) ==
    IF ~input.valid
    THEN Ret(Nil, Wrap("failed to unmarshal input: ", UnmarshalError), f, <<>>, {})
    ELSE CopyFileValidate(input.initial_path, input.ending_path, f, e,
                          ValidatePath(input.ending_path, e))

RenameJellyfinMediaInput(source_path, target_path) ==
    [valid |-> TRUE, source_path |-> source_path, target_path |-> target_path]

RenamedText(sourcePath, targetPath) ==
    [parts |-> <<"Successfully moved/renamed ", " to ">>,
     args |-> <<sourcePath, targetPath>>]

\* os.Rename(sourcePath, targetPath)
RenameMove(sourcePath, targetPath, rn, ops) ==
    IF rn.err # ""
    THEN Ret(Nil, Wrap("failed to move/rename: ",
                       OsError("rename", sourcePath, rn.err)),
             rn.fs, ops, {sourcePath, targetPath})
    ELSE Ret(RenamedText(sourcePath, targetPath), Nil, rn.fs, ops,
             {sourcePath, targetPath})

\* A move that does not look at the target before renaming.
RenameStatTargetSkipped(sourcePath, targetPath, f, e, st2, ops) ==
    RenameMove(sourcePath, targetPath,
               Rename(f, sourcePath, targetPath, e.cwd),
               Append(ops, Op("Rename", sourcePath)))

\* os.Stat(targetPath): the target must not exist.
RenameStatTarget(sourcePath, targetPath, f, e, st2, ops) ==
    IF st2 = ""
    THEN Ret(Nil, Errorf("target path already exists: ", targetPath), f, ops,
             {sourcePath, targetPath})
    ELSE RenameMove(sourcePath, targetPath,
                    Rename(f, sourcePath, targetPath, e.cwd),
                    Append(ops, Op("Rename", sourcePath)))

\* os.MkdirAll(filepath.Dir(targetPath))
RenameMkdir(sourcePath, targetPath, targetDir, e, mk, ops) ==
    IF mk.err # ""
    THEN Ret(Nil, Wrap("failed to create target directory: ",
                       OsError("mkdir", targetDir, mk.err)), mk.fs, ops,
             {sourcePath, targetPath})
    ELSE RenameStatTarget(sourcePath, targetPath, mk.fs, e,
                          Stat(mk.fs, targetPath, e.cwd),
                          Append(ops, Op("Stat", targetPath)))

\* os.Stat(sourcePath)
RenameStatSource(sourcePath, targetPath, f, e, st) ==
    IF st = "ENOENT"
    THEN Ret(Nil, Errorf("source path does not exist: ", sourcePath), f,
             <<Op("Stat", sourcePath)>>, {sourcePath, targetPath})
    ELSE RenameMkdir(sourcePath, targetPath, Dir(targetPath), e,
                     MkdirAll(f, Dir(targetPath), e.cwd),
                     <<Op("Stat", sourcePath), OpOf("MkdirAll", Dir(targetPath), targetPath)>>)

\* Both paths go through ValidatePath, the source first.
RenameValidate(sourcePath, targetPath, f, e, err1, err2) ==
    IF err1 # Nil THEN Ret(Nil, Wrap("invalid source path: ", err1), f, <<>>, {})
    ELSE IF err2 # Nil
    THEN Ret(Nil, Wrap("invalid target path: ", err2), f, <<>>, {sourcePath})
    ELSE RenameStatSource(sourcePath, targetPath, f, e, Stat(f, sourcePath, e.cwd))

RenameJellyfinMedia(input, f, e) ==
    IF ~input.valid
    THEN Ret(Nil, Wrap("failed to unmarshal input: ", UnmarshalError), f, <<>>, {})
    ELSE RenameValidate(input.source_path, input.target_path, f, e,
                        ValidatePath(input.source_path, e),
                        ValidatePath(input.target_path, e))

Ascii == <<"\n", " ", "(", ")", "-", ".", "/",
           "0", "1", "2", "3", "4", "5", "6", "7", "8", "9">>
         \o UpperCase \o LowerCase

Rank(c) == CHOOSE k \in 1..Len(Ascii) : Ascii[k] = c

\* Byte-wise order of two strings.
RECURSIVE Less(_, _)
Less(s, t) ==
    IF t = <<>> THEN FALSE
    ELSE IF s = <<>> THEN TRUE
    ELSE IF Head(s) = Head(t) THEN Less(Tail(s), Tail(t))
    ELSE Rank(Head(s)) < Rank(Head(t))

RECURSIVE SortNames(_)
SortNames(S) ==
    IF S = {} THEN <<>>
    ELSE LET least == CHOOSE n \in S : \A o \in S \ {n} : Less(n, o)
         IN  <<least>> \o SortNames(S \ {least})

Digits == <<"0", "1", "2", "3", "4", "5", "6", "7", "8", "9">>

\* fmt's %d of a non-negative integer
RECURSIVE Itoa(_)
Itoa(n) ==
    IF n < 10 THEN <<Digits[n + 1]>>
    ELSE Itoa(n \div 10) \o <<Digits[(n % 10) + 1]>>

\* os.ReadDir: the names directly under the directory at q, sorted by name.
ReadDir(f, q) ==
    SortNames({t[Len(t)] : t \in {u \in DOMAIN f : Len(u) = Len(q) + 1 /\ Under(u, q)}})

\* A listing that does not mark directories.
RECURSIVE FormatEntriesUnmarked(_, _, _)
FormatEntriesUnmarked(f, q, names) ==
    IF names = <<>> THEN <<>>
    ELSE LET name == Head(names)
             entry == f[Append(q, name)]
             line == IF entry.kind = "dir"
                     THEN name \o <<"\n">>
                     ELSE name \o <<" ", "(">> \o Itoa(Len(entry.content))
                               \o <<" ", "b", "y", "t", "e", "s", ")", "\n">>
         IN  line \o FormatEntriesUnmarked(f, q, Tail(names))

RECURSIVE FormatEntries(_, _, _)
FormatEntries(f, q, names) ==
    IF names = <<>> THEN <<>>
    ELSE LET name == Head(names)
             entry == f[Append(q, name)]
             line == IF entry.kind = "dir"
                     THEN name \o <<"/", "\n">>
                     ELSE name \o <<" ", "(">> \o Itoa(Len(entry.content))
                               \o <<" ", "b", "y", "t", "e", "s", ")", "\n">>
         IN  line \o FormatEntries(f, q, Tail(names))

ListDirectoryInput(path) == [valid |-> TRUE, path |-> path]

\* os.ReadDir and the formatting of the entries
ListDirectoryRead(dirPath, f, r) ==
    IF r.err # ""
    THEN Ret(Nil, OsError("open", dirPath, r.err), f, <<Op("ReadDir", dirPath)>>, {})
    ELSE IF f[r.at].kind # "dir"
    THEN Ret(Nil, OsError("readdirent", dirPath, "ENOTDIR"), f,
             <<Op("ReadDir", dirPath)>>, {})
    ELSE Ret(Text(FormatEntries(f, r.at, ReadDir(f, r.at))), Nil, f,
             <<Op("ReadDir", dirPath)>>, {})

Checked(res, paths) == [res EXCEPT !.checked = paths]

ListDirectoryValidate(dirPath, f, e, err) ==
    IF err # Nil THEN Ret(Nil, Wrap("access denied: ", err), f, <<>>, {})
    ELSE Checked(ListDirectoryRead(dirPath, f, Resolve(f, dirPath, e.cwd)), {dirPath})

ListDirectory(input, f, e) ==
    IF ~input.valid THEN Ret(Nil, UnmarshalError, f, <<>>, {})
    ELSE ListDirectoryValidate(input.path, f, e, ValidatePath(input.path, e))

----------------------------------------------------------------------------
(* The first version of the tools (package main, src/tools.go), which the  *)
(* program built around Agent.Run registers.                               *)

MainReadFile(input, f, e) ==
    IF ~input.valid THEN Panic(f, <<>>, {})
    ELSE Checked(ReadFileWhole(input.path, f, Resolve(f, input.path, e.cwd)), {})

MainDirPath(path) == IF path = <<>> THEN DotSeg ELSE path

MainListDirectory(input, f, e) ==
    IF ~input.valid THEN Ret(Nil, UnmarshalError, f, <<>>, {})
    ELSE ListDirectoryRead(MainDirPath(input.path), f,
                           Resolve(f, MainDirPath(input.path), e.cwd))

\* The external lookup: net is what the network did ("ok" or "err").
SearchIMDb(input, f, net) ==
    IF ~input.valid THEN Ret(Nil, UnmarshalError, f, <<>>, {})
    ELSE IF net = "err"
    THEN Ret(Nil, Wrap("failed to scrape IMDB: ", Error("visit failed")), f, <<>>, {})
    ELSE Ret(Text(<<"[", "]">>), Nil, f, <<>>, {})

----------------------------------------------------------------------------
(* The tool registries.                                                    *)

\* main.go:33-36, the tools of the program built around Agent.Run
MainTools == <<"read_file", "list_directory">>

\* tools.AllTools, the tools of the program built around RunWithInitialPrompt
AllTools == <<"read_file", "list_directory", "copy_file",
              "rename_jellyfin_media", "search_imdb">>

Registry(p) == IF p = "Run" THEN MainTools ELSE AllTools

\* toolDef.Function(input) of the registered tool called name
Function(p, name, input, f, e, net) ==
    IF p = "Run"
    THEN IF name = "read_file" THEN MainReadFile(input, f, e)
         ELSE MainListDirectory(input, f, e)
    ELSE IF name = "read_file" THEN ReadFile(input, f, e)
         ELSE IF name = "list_directory" THEN ListDirectory(input, f, e)
         ELSE IF name = "copy_file" THEN CopyFile(input, f, e)
         ELSE IF name = "rename_jellyfin_media" THEN RenameJellyfinMedia(input, f, e)
         ELSE SearchIMDb(input, f, net)

NewToolResultBlock(id, content, isError) ==
    [type |-> "tool_result", tool_use_id |-> id, content |-> content,
     is_error |-> isError]

NewUserMessage(blocks) == [role |-> "user", content |-> blocks]

NewTextBlock(text) == [type |-> "text", text |-> text]

\* message.ToParam()
ToParam(blocks) == [role |-> "assistant", content |-> blocks]

\* Agent.executeTool: the result block, the filesystem the handler leaves,
\* and whether the handler panicked (then there is no result block).
ToolResult(id, r) ==
    IF r.panicked
    THEN [block |-> NewToolResultBlock(id, Nil, TRUE),
          fs |-> r.fs, panicked |-> TRUE, invoked |-> TRUE]
    ELSE IF r.err # Nil
    THEN [block |-> NewToolResultBlock(id, r.err, TRUE),
          fs |-> r.fs, panicked |-> FALSE, invoked |-> TRUE]
    ELSE [block |-> NewToolResultBlock(id, r.response, FALSE),
          fs |-> r.fs, panicked |-> FALSE, invoked |-> TRUE]

\* A lookup that takes every name for a registered tool.
FoundAlways(p, name) == TRUE

Found(p, name) == \E i \in 1..Len(Registry(p)) : Registry(p)[i] = name

executeTool(p, id, name, input, f, e, net) ==
    IF ~Found(p, name)
    THEN [block |-> NewToolResultBlock(id, Error("tool not found"), TRUE),
          fs |-> f, panicked |-> FALSE, invoked |-> FALSE]
    ELSE ToolResult(id, Function(p, name, input, f, e, net))

----------------------------------------------------------------------------
(* The configurations and inputs the model runs on.                        *)

ShowsFolder == <<"/", "s">>
MoviesFolder == <<"/", "m">>
SourceFolder == <<"/", "c">>
WorkDir == <<"/", "w">>

Env(shows, movies, source, cwd, dotenv) ==
    [shows |-> shows, movies |-> movies, source |-> source, cwd |-> cwd,
     dotenv |-> dotenv]

\* /m/a and /c/f are files of the library and of the scan folder, /e/p is a
\* file outside every root, /mx is a sibling directory of the movies root;
\* the shows root holds the file /s/o and the directory /s/t with an empty
\* file u and an empty directory e in it.
InitFS ==
    (<< >> :> DirEntry)
    @@ (<< <<"m">> >> :> DirEntry)
    @@ (<< <<"m">>, <<"a">> >> :> FileEntry(<<"h", "i">>))
    @@ (<< <<"s">> >> :> DirEntry)
    @@ (<< <<"s">>, <<"o">> >> :> FileEntry(<<"v">>))
    @@ (<< <<"s">>, <<"t">> >> :> DirEntry)
    @@ (<< <<"s">>, <<"t">>, <<"u">> >> :> FileEntry(<<>>))
    @@ (<< <<"s">>, <<"t">>, <<"e">> >> :> DirEntry)
    @@ (<< <<"c">> >> :> DirEntry)
    @@ (<< <<"c">>, <<"f">> >> :> FileEntry(<<"v">>))
    @@ (<< <<"e">> >> :> DirEntry)
    @@ (<< <<"e">>, <<"p">> >> :> FileEntry(<<"r">>))
    @@ (<< <<"m", "x">> >> :> DirEntry)
    @@ (<< <<"w">> >> :> DirEntry)

\* The roots of an environment, as canonical paths.
Roots(e) ==
    {Names(Abs(PermittedFolders(e)[i], e.cwd)) :
        i \in {j \in 1..3 : PermittedFolders(e)[j] # <<>>}}

\* Containment of a canonical path in the roots of e.
InRoots(q, e) == \E r \in Roots(e) : IsSegPrefix(r, q)

\* The tool calls a model response is drawn from in the conversation loop.
LoopCalls ==
    << [name |-> "read_file",
        input |-> ReadFileInput(<<"/", "m", "/", "a">>, 0)],
       [name |-> "read_file",
        input |-> ReadFileInput(<<"/", "m", "/", "a">>, -1)],
       [name |-> "read_file", input |-> Malformed],
       [name |-> "copy_file",
        input |-> CopyFileInput(<<"/", "c", "/", "f">>, <<"/", "m", "/", "d", "/", "f">>)],
       [name |-> "list_directory",
        input |-> ListDirectoryInput(<<"/", "m", "/", "q">>)],
       [name |-> "search_imdb", input |-> [valid |-> TRUE]],
       [name |-> "organize", input |-> [valid |-> TRUE]] >>

\* Sequences of at most n block kinds: 0 is a text block, k > 0 the tool_use
\* block of LoopCalls[k].
RECURSIVE KindSeqs(_)
KindSeqs(n) ==
    IF n <= 0 THEN {<<>>}
    ELSE LET shorter == KindSeqs(n - 1)
         IN  shorter \cup {Append(s, k) : s \in {t \in shorter : Len(t) = n - 1},
                                            k \in 0..Len(LoopCalls)}

\* The content of a model response: the ids of its blocks are fresh.
Content(kinds, base) ==
    [i \in 1..Len(kinds) |->
        IF kinds[i] = 0 THEN NewTextBlock("reply")
        ELSE [type |-> "tool_use", id |-> base + i,
              name |-> LoopCalls[kinds[i]].name,
              input |-> LoopCalls[kinds[i]].input]]

----------------------------------------------------------------------------
(* The conversation loop. pc names the statement the program is at:        *)
(*   main                              before main() has run               *)
(*   rwip_infer0, rwip_dispatch0       the first turn of RunWithInitialPrompt *)
(*   rwip_top, rwip_infer, rwip_dispatch   the loop of RunWithInitialPrompt *)
(*   run_top, run_infer, run_dispatch  the loop of Run                     *)
(*   returned_nil, returned_err, panicked, fatal   the process has ended   *)

toolVars == <<last, nCalls, vp>>

NoCall == [tool |-> "", input |-> Malformed, before |-> << >>,
           res |-> Ret(Nil, Nil, << >>, <<>>, {})]

NoVp == [path |-> <<>>, done |-> FALSE, err |-> Nil]

NoRequest == [Messages |-> <<>>, Tools |-> <<>>]

\* A model call that is given only the last message of the conversation.
runInferenceLastOnly(conversation, tools) ==
    [Messages |-> IF conversation = <<>> THEN <<>>
                  ELSE <<conversation[Len(conversation)]>>,
     Tools |-> tools]

\* a.runInference: the request carries the conversation and the tools.
runInference(conversation, tools) == [Messages |-> conversation, Tools |-> tools]

LoopEnvs ==
    { Env(ShowsFolder, MoviesFolder, SourceFolder, WorkDir, TRUE),
      Env(ShowsFolder, <<>>, SourceFolder, WorkDir, TRUE),
      Env(ShowsFolder, MoviesFolder, SourceFolder, WorkDir, FALSE) }

Init ==
    /\ env \in LoopEnvs
    /\ prog \in {"Run", "RunWithInitialPrompt"}
    /\ fs = InitFS
    /\ pc = "main"
    /\ convo = <<>>
    /\ message = <<>>
    /\ idx = 1
    /\ toolResults = <<>>
    /\ readUserInput = TRUE
    /\ linesLeft \in 0..MaxLines
    /\ nBlocks = 0
    /\ last = NoCall
    /\ nCalls = 0
    /\ vp = NoVp
    /\ request = NoRequest

\* main() of the first program (main.go:15-44) up to the loop of Run.
MainRun ==
    /\ pc = "main"
    /\ prog = "Run"
    /\ IF ~env.dotenv
       THEN pc' = "fatal" /\ UNCHANGED <<convo, readUserInput>>
       ELSE /\ pc' = "run_top"
            /\ convo' = <<>>
            /\ readUserInput' = TRUE
    /\ UNCHANGED <<env, fs, message, idx, toolResults, linesLeft, nBlocks, prog, request>>
    /\ UNCHANGED toolVars

\* main() of the second program up to the first model call of
\* RunWithInitialPrompt: a missing root stops the process.
MainRunWithInitialPrompt ==
    /\ pc = "main"
    /\ prog = "RunWithInitialPrompt"
    /\ IF ~env.dotenv \/ env.movies = <<>> \/ env.shows = <<>>
       THEN pc' = "fatal" /\ UNCHANGED convo
       ELSE /\ pc' = "rwip_infer0"
            /\ convo' = <<NewUserMessage(<<NewTextBlock("initialPrompt")>>)>>
    /\ UNCHANGED <<env, fs, message, idx, toolResults, readUserInput, linesLeft,
                   nBlocks, prog, request>>
    /\ UNCHANGED toolVars

\* a.runInference and the statements up to the loop over the content blocks:
\* an error of the model call is returned to main.
Inference(to) ==
    /\ request' = runInference(convo, Registry(prog))
    /\ \/ /\ pc' = "returned_err"
          /\ UNCHANGED <<convo, message, idx, toolResults, nBlocks>>
       \/ \E kinds \in KindSeqs(MaxBlocks - nBlocks) :
             LET content == Content(kinds, nBlocks)
             IN  /\ convo' = Append(convo, ToParam(content))
                 /\ message' = content
                 /\ idx' = 1
                 /\ toolResults' = <<>>
                 /\ nBlocks' = nBlocks + Len(kinds)
                 /\ pc' = to
    /\ UNCHANGED <<env, fs, readUserInput, linesLeft, prog>>
    /\ UNCHANGED toolVars

\* A dispatch that puts the result of a call in front of the earlier ones.
DispatchToolUsePrepends(result) ==
    /\ fs' = result.fs
    /\ IF result.panicked
       THEN pc' = "panicked" /\ UNCHANGED <<toolResults, idx>>
       ELSE /\ toolResults' = <<result.block>> \o toolResults
            /\ idx' = idx + 1
            /\ UNCHANGED pc

\* The case "tool_use" of the loop over message.Content: a panic of the
\* handler ends the process.
DispatchToolUse(result) ==
    /\ fs' = result.fs
    /\ IF result.panicked
       THEN pc' = "panicked" /\ UNCHANGED <<toolResults, idx>>
       ELSE /\ toolResults' = Append(toolResults, result.block)
            /\ idx' = idx + 1
            /\ UNCHANGED pc

\* What the network does for the handler: only search_imdb uses it.
Nets(content) ==
    IF content.type = "tool_use" /\ content.name = "search_imdb"
    THEN {"ok", "err"} ELSE {"ok"}

\* One iteration of the loop over message.Content.
DispatchBlock(content) ==
    IF content.type = "tool_use"
    THEN \E net \in Nets(content) :
            DispatchToolUse(executeTool(prog, content.id, content.name,
                                        content.input, fs, env, net))
    ELSE /\ idx' = idx + 1
         /\ UNCHANGED <<fs, toolResults, pc>>

\* A dispatch in which the handler also sets SOURCE_FOLDER.
DispatchSetsRoot ==
    /\ idx <= Len(message)
    /\ DispatchBlock(message[idx])
    /\ env' = [env EXCEPT !.source = <<"/", "e">>]
    /\ UNCHANGED <<convo, message, readUserInput, linesLeft, nBlocks, prog, request>>
    /\ UNCHANGED toolVars

Dispatch ==
    /\ idx <= Len(message)
    /\ DispatchBlock(message[idx])
    /\ UNCHANGED <<env, convo, message, readUserInput, linesLeft, nBlocks, prog, request>>
    /\ UNCHANGED toolVars

\* A loop end that hands each tool result over in a user message of its own.
TurnEndUnbatched(top) ==
    /\ idx > Len(message)
    /\ IF Len(toolResults) = 0
       THEN /\ readUserInput' = TRUE
            /\ UNCHANGED convo
       ELSE /\ readUserInput' = FALSE
            /\ convo' = convo \o [k \in 1..Len(toolResults) |->
                                     NewUserMessage(<<toolResults[k]>>)]
    /\ pc' = top
    /\ UNCHANGED <<env, fs, message, idx, toolResults, linesLeft, nBlocks, prog, request>>
    /\ UNCHANGED toolVars

\* A loop end that asks for operator input whether or not tools ran.
TurnEndReadsInput(top) ==
    /\ idx > Len(message)
    /\ readUserInput' = TRUE
    /\ IF Len(toolResults) = 0
       THEN UNCHANGED convo
       ELSE convo' = Append(convo, NewUserMessage(toolResults))
    /\ pc' = top
    /\ UNCHANGED <<env, fs, message, idx, toolResults, linesLeft, nBlocks, prog, request>>
    /\ UNCHANGED toolVars

\* The statements after the loop over the content blocks, in the loop.
TurnEnd(top) ==
    /\ idx > Len(message)
    /\ IF Len(toolResults) = 0
       THEN /\ readUserInput' = TRUE
            /\ UNCHANGED convo
       ELSE /\ readUserInput' = FALSE
            /\ convo' = Append(convo, NewUserMessage(toolResults))
    /\ pc' = top
    /\ UNCHANGED <<env, fs, message, idx, toolResults, linesLeft, nBlocks, prog, request>>
    /\ UNCHANGED toolVars

\* The head of the loop when readUserInput is set: one line of operator
\* input, or the end of the input and of the loop.
GetUserMessage(to) ==
    /\ readUserInput
    /\ IF linesLeft = 0
       THEN /\ pc' = "returned_nil"
            /\ UNCHANGED <<convo, linesLeft>>
       ELSE /\ convo' = Append(convo, NewUserMessage(<<NewTextBlock("userInput")>>))
            /\ linesLeft' = linesLeft - 1
            /\ pc' = to
    /\ UNCHANGED <<env, fs, message, idx, toolResults, readUserInput, nBlocks, prog, request>>
    /\ UNCHANGED toolVars

RwipInference0 == pc = "rwip_infer0" /\ Inference("rwip_dispatch0")

RwipDispatch0 == pc = "rwip_dispatch0" /\ Dispatch

\* An end of the first turn that does not hand the tool results over.
RwipTurnEnd0DropsResults ==
    /\ pc = "rwip_dispatch0"
    /\ idx > Len(message)
    /\ convo' = convo
    /\ readUserInput' = (Len(toolResults) = 0)
    /\ pc' = "rwip_top"
    /\ UNCHANGED <<env, fs, message, idx, toolResults, linesLeft, nBlocks, prog, request>>
    /\ UNCHANGED toolVars

\* An end of the first turn that always asks for operator input next.
RwipTurnEnd0ReadsInput ==
    /\ pc = "rwip_dispatch0"
    /\ idx > Len(message)
    /\ convo' = IF Len(toolResults) > 0
                THEN Append(convo, NewUserMessage(toolResults))
                ELSE convo
    /\ readUserInput' = TRUE
    /\ pc' = "rwip_top"
    /\ UNCHANGED <<env, fs, message, idx, toolResults, linesLeft, nBlocks, prog, request>>
    /\ UNCHANGED toolVars

\* main.go:338-343
RwipTurnEnd0 ==
    /\ pc = "rwip_dispatch0"
    /\ idx > Len(message)
    /\ convo' = IF Len(toolResults) > 0
                THEN Append(convo, NewUserMessage(toolResults))
                ELSE convo
    /\ readUserInput' = (Len(toolResults) = 0)
    /\ pc' = "rwip_top"
    /\ UNCHANGED <<env, fs, message, idx, toolResults, linesLeft, nBlocks, prog, request>>
    /\ UNCHANGED toolVars

RwipGetUserMessage == pc = "rwip_top" /\ GetUserMessage("rwip_infer")

RwipInference ==
    /\ pc = "rwip_infer" \/ (pc = "rwip_top" /\ ~readUserInput)
    /\ Inference("rwip_dispatch")

RwipDispatch == pc = "rwip_dispatch" /\ Dispatch

RwipTurnEnd == pc = "rwip_dispatch" /\ TurnEnd("rwip_top")

RunGetUserMessage == pc = "run_top" /\ GetUserMessage("run_infer")

RunInference ==
    /\ pc = "run_infer" \/ (pc = "run_top" /\ ~readUserInput)
    /\ Inference("run_dispatch")

RunDispatch == pc = "run_dispatch" /\ Dispatch

RunTurnEnd == pc = "run_dispatch" /\ TurnEnd("run_top")

Next ==
    \/ MainRun
    \/ MainRunWithInitialPrompt
    \/ RwipInference0
    \/ RwipDispatch0
    \/ RwipTurnEnd0
    \/ RwipGetUserMessage
    \/ RwipInference
    \/ RwipDispatch
    \/ RwipTurnEnd
    \/ RunGetUserMessage
    \/ RunInference
    \/ RunDispatch
    \/ RunTurnEnd

Spec == Init /\ [][Next]_vars

----------------------------------------------------------------------------
(* The tools called directly, on every combination of the paths below.     *)

ToolPaths ==
    { <<"/", "m", "/", "a">>,
      <<"/", "m", "/", "d", "/", "f">>,
      <<"/", "m", "x", "/", "a">>,
      <<"/", "e", "/", "p">>,
      <<"/", "m", "/", ".", ".", "/", "e", "/", "p">>,
      <<"/", "c", "/", "f">>,
      <<"/", "m">>,
      <<"/", "m", "/", "a", "/", "z">> }

\* The paths read_file is called on: also an empty file, and names with a
\* denied extension inside a root, outside every root, beside a root and
\* with two dots in the name.
ReadPaths ==
    ToolPaths \cup
    { <<"/", "s", "/", "t", "/", "u">>,
      <<"/", "m", "/", "v", ".", "T", "s">>,
      <<"/", "e", "/", "v", ".", "t", "s">>,
      <<"/", "m", "x", "/", "v", ".", "t", "s">>,
      <<"/", "m", "/", "a", ".", ".", "t", "s">> }

\* The paths list_directory is called on: also a directory that holds a
\* directory, one that holds a file and a directory, and an empty one.
ListPaths ==
    ToolPaths \cup
    { <<"/", "s">>,
      <<"/", "s", "/", "t">>,
      <<"/", "s", "/", "t", "/", "e">> }

ByteLimits == {0, 1, -1}

ToolEnvs ==
    { Env(ShowsFolder, MoviesFolder, SourceFolder, WorkDir, TRUE),
      Env(ShowsFolder, MoviesFolder, <<>>, WorkDir, TRUE) }

loopVars == <<convo, message, idx, toolResults, readUserInput, linesLeft,
              nBlocks, prog, request>>

InitTools ==
    /\ env \in ToolEnvs
    /\ fs = InitFS
    /\ pc = "tools"
    /\ prog = "RunWithInitialPrompt"
    /\ convo = <<>>
    /\ message = <<>>
    /\ idx = 1
    /\ toolResults = <<>>
    /\ readUserInput = TRUE
    /\ linesLeft = 0
    /\ nBlocks = 0
    /\ last = NoCall
    /\ nCalls = 0
    /\ vp = NoVp
    /\ request = NoRequest

\* One handler invocation: its outcome is recorded, the filesystem is the
\* one the handler leaves.
Call(tool, input, res) ==
    /\ nCalls < MaxCalls
    /\ ~last.res.panicked
    /\ nCalls' = nCalls + 1
    /\ last' = [tool |-> tool, input |-> input, before |-> fs, res |-> res]
    /\ fs' = res.fs
    /\ UNCHANGED <<env, pc, vp>>
    /\ UNCHANGED loopVars

CallReadFile ==
    \E p \in ReadPaths, n \in ByteLimits :
        Call("read_file", ReadFileInput(p, n), ReadFile(ReadFileInput(p, n), fs, env))

CallListDirectory ==
    \E p \in ListPaths :
        Call("list_directory", ListDirectoryInput(p),
             ListDirectory(ListDirectoryInput(p), fs, env))

CallCopyFile ==
    \E p \in ToolPaths, q \in ToolPaths :
        Call("copy_file", CopyFileInput(p, q), CopyFile(CopyFileInput(p, q), fs, env))

CallRenameJellyfinMedia ==
    \E p \in ToolPaths, q \in ToolPaths :
        Call("rename_jellyfin_media", RenameJellyfinMediaInput(p, q),
             RenameJellyfinMedia(RenameJellyfinMediaInput(p, q), fs, env))

CallMalformed ==
    \E tool \in {"read_file", "list_directory", "copy_file", "rename_jellyfin_media"} :
        Call(tool, Malformed, Function("RunWithInitialPrompt", tool, Malformed, fs, env, "ok"))

CallMainReadFile ==
    \E p \in ToolPaths :
        Call("main.read_file", ReadFileInput(p, 0),
             MainReadFile(ReadFileInput(p, 0), fs, env))

CallMainListDirectory ==
    \E p \in ListPaths :
        Call("main.list_directory", ListDirectoryInput(p),
             MainListDirectory(ListDirectoryInput(p), fs, env))

NextTools ==
    \/ CallReadFile
    \/ CallListDirectory
    \/ CallCopyFile
    \/ CallRenameJellyfinMedia
    \/ CallMalformed
    \/ CallMainReadFile
    \/ CallMainListDirectory

SpecTools == InitTools /\ [][NextTools]_vars

----------------------------------------------------------------------------
(* ValidatePath evaluated on every string of at most MaxPathLen characters *)
(* under several configurations of the roots.                              *)

PathEnvs ==
    { Env(ShowsFolder, MoviesFolder, <<>>, WorkDir, TRUE),
      Env(ShowsFolder, MoviesFolder, <<>>, MoviesFolder, TRUE),
      Env(ShowsFolder, <<"/", "m", "/", "x">>, <<"/", "x">>, WorkDir, TRUE),
      Env(<<>>, <<>>, <<>>, MoviesFolder, TRUE) }

InitPath ==
    /\ env \in PathEnvs
    /\ vp \in {[path |-> s, done |-> FALSE, err |-> Nil] : s \in StringsUpTo(MaxPathLen)}
    /\ fs = InitFS
    /\ pc = "path"
    /\ prog = "RunWithInitialPrompt"
    /\ convo = <<>>
    /\ message = <<>>
    /\ idx = 1
    /\ toolResults = <<>>
    /\ readUserInput = TRUE
    /\ linesLeft = 0
    /\ nBlocks = 0
    /\ last = NoCall
    /\ nCalls = 0
    /\ request = NoRequest

ValidatePathCall ==
    /\ ~vp.done
    /\ vp' = [vp EXCEPT !.done = TRUE, !.err = ValidatePath(vp.path, env)]
    /\ UNCHANGED <<env, fs, pc, last, nCalls>>
    /\ UNCHANGED loopVars

NextPath == ValidatePathCall

SpecPath == InitPath /\ [][NextPath]_vars

----------------------------------------------------------------------------
(* The earlier versions of the tools: list_directory by media type and     *)
(* subpath, and copy_file and rename_jellyfin_media with their own path    *)
(* resolution.                                                             *)

\* The number of leading elements two canonical paths share.
CommonLen(b, t) ==
    CHOOSE n \in 0..Min(Len(b), Len(t)) :
        /\ SubSeq(b, 1, n) = SubSeq(t, 1, n)
        /\ n = Min(Len(b), Len(t)) \/ b[n + 1] # t[n + 1]

\* filepath.Rel of two cleaned paths: one ".." for each element of basepath
\* after the shared ones, then the rest of targpath; "." when they are equal;
\* an error when only one of the two is absolute.
Rel(basepath, targpath) ==
    LET b == Names(basepath)
        t == Names(targpath)
        n == CommonLen(b, t)
        ups == [k \in 1..(Len(b) - n) |-> DotDotSeg]
    IN  [err |-> IsAbs(basepath) # IsAbs(targpath),
         path |-> IF b = t THEN DotSeg
                  ELSE JoinSegs(ups \o SubSeq(t, n + 1, Len(t)))]

\* A test that takes only the parent directory itself for outside.
EscapesOnlyParent(rel) == rel.err \/ rel.path = DotDotSeg

\* err != nil || relPath == ".." || len(relPath) > 2 && relPath[:3] == "../"
Escapes(rel) ==
    \/ rel.err
    \/ rel.path = DotDotSeg
    \/ Len(rel.path) > 2 /\ SubSeq(rel.path, 1, 3) = <<".", ".", "/">>

ListDirectoryTypedInput(type, subpath) ==
    [valid |-> TRUE, type |-> type, subpath |-> subpath]

\* The switch on the type: the root of the type, or the error.
BasePath(type, e) ==
    IF type = "shows"
    THEN [path |-> e.shows,
          err |-> IF e.shows = <<>>
                  THEN Error("JELLYFIN_SHOWS_FOLDER environment variable not set")
                  ELSE Nil]
    ELSE IF type = "movies"
    THEN [path |-> e.movies,
          err |-> IF e.movies = <<>>
                  THEN Error("JELLYFIN_MOVIES_FOLDER environment variable not set")
                  ELSE Nil]
    ELSE [path |-> <<>>,
          err |-> [parts |-> <<"invalid type '", "': must be 'shows' or 'movies'">>,
                   args |-> <<type>>]]

\* The check of the resolved path against the base, then the listing.
ListDirectoryTypedContain(dirPath, f, e, rel) ==
    IF Escapes(rel)
    THEN Ret(Nil, Error("access denied: path outside of allowed directory"), f,
             <<>>, {})
    ELSE ListDirectoryRead(dirPath, f, Resolve(f, dirPath, e.cwd))

ListDirectoryTypedJoin(basePath, dirPath, f, e) ==
    ListDirectoryTypedContain(dirPath, f, e,
                              Rel(Abs(basePath, e.cwd), Abs(dirPath, e.cwd)))

ListDirectoryTypedBase(subpath, f, e, base) ==
    IF base.err # Nil THEN Ret(Nil, base.err, f, <<>>, {})
    ELSE ListDirectoryTypedJoin(base.path,
                                IF subpath # <<>> THEN Join(base.path, subpath)
                                ELSE base.path,
                                f, e)

ListDirectoryTyped(input, f, e) ==
    IF ~input.valid THEN Ret(Nil, UnmarshalError, f, <<>>, {})
    ELSE ListDirectoryTypedBase(input.subpath, f, e, BasePath(input.type, e))

Resolved(path) == [path |-> path, err |-> Nil]

Unresolved(err) == [path |-> <<>>, err |-> err]

\* The candidate joined to the root, when the join stays inside the root.
Within(root, inputPath, e) ==
    ~Escapes(Rel(Abs(root, e.cwd), Abs(Join(root, inputPath), e.cwd)))

\* A resolution that tries the movies root before the shows root.
validateAndResolvePathMoviesFirst(inputPath, e) ==
    IF e.shows = <<>> \/ e.movies = <<>>
    THEN Unresolved(Error("JELLYFIN_SHOWS_FOLDER or JELLYFIN_MOVIES_FOLDER environment variable not set"))
    ELSE IF Within(e.movies, inputPath, e) THEN Resolved(Join(e.movies, inputPath))
    ELSE IF Within(e.shows, inputPath, e) THEN Resolved(Join(e.shows, inputPath))
    ELSE Unresolved(Error("path must be within Jellyfin media directories"))

\* copy_file's resolution: the candidate is joined to the shows root, then
\* to the movies root, and the first join that stays inside its root is taken.
validateAndResolvePath(inputPath, e) ==
    IF e.shows = <<>> \/ e.movies = <<>>
    THEN Unresolved(Error("JELLYFIN_SHOWS_FOLDER or JELLYFIN_MOVIES_FOLDER environment variable not set"))
    ELSE IF Within(e.shows, inputPath, e) THEN Resolved(Join(e.shows, inputPath))
    ELSE IF Within(e.movies, inputPath, e) THEN Resolved(Join(e.movies, inputPath))
    ELSE Unresolved(Error("path must be within Jellyfin media directories"))

CopyFileResolvedPaths(f, e, src, dst) ==
    IF src.err # Nil THEN Ret(Nil, Wrap("invalid source path: ", src.err), f, <<>>, {})
    ELSE IF dst.err # Nil
    THEN Ret(Nil, Wrap("invalid destination path: ", dst.err), f, <<>>, {})
    ELSE CopyFileStat(src.path, dst.path, f, e, Stat(f, src.path, e.cwd))

\* CopyFile of the earlier version: both paths are resolved, then the copy
\* is made as in the later version.
CopyFileResolved(input, f, e) ==
    IF ~input.valid
    THEN Ret(Nil, Wrap("failed to unmarshal input: ", UnmarshalError), f, <<>>, {})
    ELSE CopyFileResolvedPaths(f, e, validateAndResolvePath(input.initial_path, e),
                               validateAndResolvePath(input.ending_path, e))

\* rename_jellyfin_media's resolution: the absolute form of the candidate
\* when it lies in the shows or the movies root, else the candidate joined
\* to the shows root, then to the movies root.
validateJellyfinPath(inputPath, e) ==
    IF e.shows = <<>> \/ e.movies = <<>>
    THEN Unresolved(Error("JELLYFIN_SHOWS_FOLDER or JELLYFIN_MOVIES_FOLDER environment variable not set"))
    ELSE IF ~Escapes(Rel(Abs(e.shows, e.cwd), Abs(inputPath, e.cwd)))
    THEN Resolved(Abs(inputPath, e.cwd))
    ELSE IF ~Escapes(Rel(Abs(e.movies, e.cwd), Abs(inputPath, e.cwd)))
    THEN Resolved(Abs(inputPath, e.cwd))
    ELSE IF Within(e.shows, inputPath, e)
    THEN Resolved(Abs(Join(e.shows, inputPath), e.cwd))
    ELSE IF Within(e.movies, inputPath, e)
    THEN Resolved(Abs(Join(e.movies, inputPath), e.cwd))
    ELSE Unresolved([parts |-> <<"path must be within Jellyfin media directories (",
                                 " or ", ")">>,
                     args |-> <<e.shows, e.movies>>])

RenameResolvedPaths(f, e, src, dst) ==
    IF src.err # Nil THEN Ret(Nil, Wrap("invalid source path: ", src.err), f, <<>>, {})
    ELSE IF dst.err # Nil
    THEN Ret(Nil, Wrap("invalid target path: ", dst.err), f, <<>>, {})
    ELSE RenameStatSource(src.path, dst.path, f, e, Stat(f, src.path, e.cwd))

\* RenameJellyfinMedia of the earlier version.
RenameJellyfinMediaResolved(input, f, e) ==
    IF ~input.valid
    THEN Ret(Nil, Wrap("failed to unmarshal input: ", UnmarshalError), f, <<>>, {})
    ELSE RenameResolvedPaths(f, e, validateJellyfinPath(input.source_path, e),
                             validateJellyfinPath(input.target_path, e))

MediaTypes == {"shows", "movies", "music"}

\* Subpaths of the typed listing: inside the root, up and out of it, into
\* the other root, absolute, a name that begins with two dots, and out of
\* the root and back into it.
Subpaths ==
    { <<>>,
      <<"t">>,
      <<"t", "/", "e">>,
      <<"a">>,
      <<".", ".">>,
      <<".", ".", "/", "m">>,
      <<".", ".", "/", "s", "/", "t">>,
      <<"/", "m">>,
      <<".", ".", "x">>,
      <<"t", "/", ".", ".", "/", ".", ".", "/", "e">> }

\* Candidates of the resolving tools: absolute inside a root, relative,
\* outside every root, and relative out of the shows root into the other.
ResolvedPaths ==
    { <<"/", "m", "/", "a">>,
      <<"/", "m", "/", "d", "/", "f">>,
      <<"/", "s", "/", "o">>,
      <<"/", "e", "/", "p">>,
      <<"o">>,
      <<"t", "/", "u">>,
      <<".", ".", "/", "m", "/", "a">>,
      <<".", ".", "/", ".", ".", "/", "e">> }

OlderEnvs ==
    { Env(ShowsFolder, MoviesFolder, SourceFolder, WorkDir, TRUE),
      Env(<<>>, MoviesFolder, SourceFolder, WorkDir, TRUE) }

InitOlder ==
    /\ env \in OlderEnvs
    /\ fs = InitFS
    /\ pc = "older"
    /\ prog = "RunWithInitialPrompt"
    /\ convo = <<>>
    /\ message = <<>>
    /\ idx = 1
    /\ toolResults = <<>>
    /\ readUserInput = TRUE
    /\ linesLeft = 0
    /\ nBlocks = 0
    /\ last = NoCall
    /\ nCalls = 0
    /\ vp = NoVp
    /\ request = NoRequest

CallListDirectoryTyped ==
    \E type \in MediaTypes, subpath \in Subpaths :
        Call("list_directory", ListDirectoryTypedInput(type, subpath),
             ListDirectoryTyped(ListDirectoryTypedInput(type, subpath), fs, env))

CallCopyFileResolved ==
    \E p \in ResolvedPaths, q \in ResolvedPaths :
        Call("copy_file", CopyFileInput(p, q),
             CopyFileResolved(CopyFileInput(p, q), fs, env))

CallRenameJellyfinMediaResolved ==
    \E p \in ResolvedPaths, q \in ResolvedPaths :
        Call("rename_jellyfin_media", RenameJellyfinMediaInput(p, q),
             RenameJellyfinMediaResolved(RenameJellyfinMediaInput(p, q), fs, env))

NextOlder ==
    \/ CallListDirectoryTyped
    \/ CallCopyFileResolved
    \/ CallRenameJellyfinMediaResolved

SpecOlder == InitOlder /\ [][NextOlder]_vars

----------------------------------------------------------------------------
(* The two resolvers of the earlier tools evaluated on every string of at  *)
(* most MaxPathLen characters.                                             *)

\* A working directory outside the roots, one inside the movies root, and a
\* configuration without the shows root.
ResolveEnvs ==
    { Env(ShowsFolder, MoviesFolder, <<>>, WorkDir, TRUE),
      Env(ShowsFolder, MoviesFolder, <<>>, MoviesFolder, TRUE),
      Env(<<>>, MoviesFolder, <<>>, WorkDir, TRUE) }

InitResolve ==
    /\ env \in ResolveEnvs
    /\ vp \in {[path |-> s, done |-> FALSE, err |-> Nil, fn |-> "", out |-> <<>>] :
                 s \in StringsUpTo(MaxPathLen)}
    /\ fs = InitFS
    /\ pc = "resolve"
    /\ prog = "RunWithInitialPrompt"
    /\ convo = <<>>
    /\ message = <<>>
    /\ idx = 1
    /\ toolResults = <<>>
    /\ readUserInput = TRUE
    /\ linesLeft = 0
    /\ nBlocks = 0
    /\ last = NoCall
    /\ nCalls = 0
    /\ request = NoRequest

\* One evaluation of a resolver: its two results are recorded.
ResolverCall(fn, res) ==
    /\ ~vp.done
    /\ vp' = [vp EXCEPT !.done = TRUE, !.fn = fn, !.err = res.err, !.out = res.path]
    /\ UNCHANGED <<env, fs, pc, last, nCalls>>
    /\ UNCHANGED loopVars

validateAndResolvePathCall ==
    ResolverCall("validateAndResolvePath", validateAndResolvePath(vp.path, env))

validateJellyfinPathCall ==
    ResolverCall("validateJellyfinPath", validateJellyfinPath(vp.path, env))

NextResolve ==
    \/ validateAndResolvePathCall
    \/ validateJellyfinPathCall

SpecResolve == InitResolve /\ [][NextResolve]_vars

----------------------------------------------------------------------------
(* Vocabulary of the properties.                                           *)

IsToolUse(b) == b.type = "tool_use"

IsToolResult(b) == b.type = "tool_result"

\* The correlation ids of the tool_use blocks of a message, in order.
ToolUseIds(m) ==
    LET uses == SelectSeq(m.content, IsToolUse)
    IN  [k \in 1..Len(uses) |-> uses[k].id]

\* The correlation ids of the tool_result blocks of a message, in order.
ResultIds(m) ==
    LET results == SelectSeq(m.content, IsToolResult)
    IN  [k \in 1..Len(results) |-> results[k].tool_use_id]

\* The places of the conversation that hold a tool result for id.
ResultPlaces(id) ==
    {<<i, j>> \in (1..Len(convo)) \X (1..MaxBlocks + 1) :
        /\ j <= Len(convo[i].content)
        /\ IsToolResult(convo[i].content[j])
        /\ convo[i].content[j].tool_use_id = id}

Dispatching == pc \in {"rwip_dispatch0", "rwip_dispatch", "run_dispatch"}

AtTop == pc \in {"rwip_top", "run_top"}

\* The loop is about to call the model.
AtModelInvocation ==
    \/ pc \in {"rwip_infer0", "rwip_infer", "run_infer"}
    \/ AtTop /\ ~readUserInput

HoldsResults(m) ==
    m.role = "user" /\ \E j \in 1..Len(m.content) : IsToolResult(m.content[j])

LastMessage == convo[Len(convo)]

\* This step reads operator input: it takes a line or meets the end of input.
ReadsInput ==
    \/ linesLeft' < linesLeft
    \/ pc' = "returned_nil" /\ pc # "returned_nil"

\* This step calls the model: the call fails or its response is appended.
InvokesModel ==
    \/ pc' = "returned_err" /\ pc # "returned_err"
    \/ /\ Len(convo') = Len(convo) + 1
       /\ convo'[Len(convo')].role = "assistant"

\* Tool results exist that the model has not been given yet.
ResultsPending ==
    \/ Dispatching /\ toolResults # <<>>
    \/ convo # <<>> /\ HoldsResults(LastMessage)

Ended == pc \in {"returned_nil", "returned_err", "panicked"}

\* A path element that is the parent directory.
HasParentSegment(p) == \E k \in 1..Len(Split(p)) : Split(p)[k] = DotDotSeg

\* The absolute form of p lies in a configured root.
Contained(p, e) == InRoots(Names(Abs(p, e.cwd)), e)

\* The path arguments of a recorded tool call.
PathArgs(c) ==
    IF ~c.input.valid THEN {}
    ELSE IF c.tool = "copy_file" THEN {c.input.initial_path, c.input.ending_path}
    ELSE IF c.tool = "rename_jellyfin_media"
    THEN {c.input.source_path, c.input.target_path}
    ELSE {c.input.path}

IsContainmentError(err) ==
    \E k \in 1..Len(err.parts) :
        err.parts[k] \in {"path contains invalid directory traversal: ",
                          "path is not within permitted folders: "}

\* The entry at canonical path q differs from what the filesystem held at
\* the start.
Changed(q) ==
    \/ q \notin DOMAIN fs
    \/ q \notin DOMAIN InitFS
    \/ fs[q] # InitFS[q]

----------------------------------------------------------------------------
(* The claims.                                                             *)

\* C1: every tool_use block of a model response gets exactly one tool-result
\* block with its correlation id in the conversation, whatever the tool name
\* and payload: once the loop is no longer dispatching the response (or the
\* process has ended), no call is left without its result and none has two.
C1_ExactlyOneToolResult ==
    ~Dispatching =>
        \A i \in 1..Len(convo) : \A j \in 1..Len(convo[i].content) :
            IsToolUse(convo[i].content[j]) =>
                Cardinality(ResultPlaces(convo[i].content[j].id)) = 1

\* C2: at every model invocation and at normal loop exit, every earlier model
\* turn that issued tool calls is directly followed by one user message that
\* holds exactly the results of those calls (in call order), and no other
\* message holds a result of them.
C2_ResultsBatchedBeforeInference ==
    (AtModelInvocation \/ pc = "returned_nil") =>
        \A i \in 1..Len(convo) :
            (convo[i].role = "assistant" /\ ToolUseIds(convo[i]) # <<>>) =>
                /\ i < Len(convo)
                /\ convo[i + 1].role = "user"
                /\ \A j \in 1..Len(convo[i + 1].content) :
                       IsToolResult(convo[i + 1].content[j])
                /\ ResultIds(convo[i + 1]) = ToolUseIds(convo[i])
                /\ \A k \in 1..Len(ToolUseIds(convo[i])) :
                       \A pl \in ResultPlaces(ToolUseIds(convo[i])[k]) : pl[1] = i + 1

\* C2 witness: the model is about to be called after a turn of two tool calls.
C2_Witness ==
    /\ AtModelInvocation
    /\ \E i \in 1..Len(convo) :
          convo[i].role = "assistant" /\ Len(ToolUseIds(convo[i])) = 2

\* C3: at the head of the loop, after a response without tool calls the next
\* step reads operator input; after a response with tool calls (its results
\* appended) the next step calls the model; and no step reads operator input
\* while tool results are pending delivery to the model.
C3_TurnTaking ==
    [][ /\ (AtTop /\ convo # <<>> /\ LastMessage.role = "assistant")
            => (ToolUseIds(LastMessage) = <<>> /\ ReadsInput)
        /\ (AtTop /\ convo # <<>> /\ HoldsResults(LastMessage)) => InvokesModel
        /\ ReadsInput => ~ResultsPending ]_vars

\* C3 witness: the loop is about to read input after a response without tool
\* calls, and an earlier turn's tool results were delivered to the model.
C3_Witness ==
    /\ AtTop
    /\ readUserInput
    /\ convo # <<>>
    /\ LastMessage.role = "assistant"
    /\ \E i \in 1..Len(convo) : HoldsResults(convo[i])

\* C4: when the loop awaits operator input and the input has ended, the loop
\* returns nil without calling the model or a tool again, and the end of the
\* operator input is the only way the loop ends.
C4_EndOfInputIsTheOnlyExit ==
    [][ /\ (AtTop /\ readUserInput /\ linesLeft = 0)
            => (pc' = "returned_nil" /\ convo' = convo /\ fs' = fs)
        /\ (Ended' /\ ~Ended)
            => (AtTop /\ readUserInput /\ linesLeft = 0 /\ pc' = "returned_nil") ]_vars

\* C5: a failed model invocation does not end the loop in an error state: no
\* run reaches the state in which the loop has returned the model's error.
C5_ModelErrorAbsorbed == pc # "returned_err"

\* C6: after any sequence of tool calls, every entry that was created,
\* overwritten, renamed or removed lies in a configured root.
C6_ChangesWithinRoots ==
    \A q \in DOMAIN fs \cup DOMAIN InitFS : Changed(q) => InRoots(q, env)

\* C7: ValidatePath rejects every candidate whose absolute form is neither a
\* root nor a path-segment descendant of a root.
C7_OutsideRejected ==
    (vp.done /\ ~Contained(vp.path, env)) => vp.err # Nil

\* C8: for a candidate without a parent-directory segment, ValidatePath
\* succeeds exactly when the candidate's absolute form is contained in a root.
C8_AcceptedIffContained ==
    (vp.done /\ ~HasParentSegment(vp.path)) =>
        (vp.err = Nil <=> Contained(vp.path, env))

\* C9: a tool call with a parent-directory segment in a path argument is
\* rejected with a containment error before any os call, and leaves the
\* filesystem as it was.
C9_TraversalRejectedBeforeIO ==
    (last.tool # "" /\ \E p \in PathArgs(last) : HasParentSegment(p)) =>
        /\ last.res.ops = <<>>
        /\ fs = last.before
        /\ IsContainmentError(last.res.err)

\* C10: every os call of a filesystem tool is made on a path argument that
\* the containment check accepted before.
C10_EveryPathChecked ==
    \A k \in 1..Len(last.res.ops) : last.res.ops[k].arg \in last.res.checked

\* C11: a successful copy between an allowed source file and an allowed
\* destination leaves the destination holding the bytes the source held
\* before the call, and leaves the source in place with those same bytes; the
\* two paths need not differ.
C11_CopyRoundTrip ==
    (/\ last.tool = "copy_file"
     /\ last.input.valid
     /\ last.res.err = Nil
     /\ Contained(last.input.initial_path, env)
     /\ Contained(last.input.ending_path, env)) =>
        LET src == Resolve(last.before, last.input.initial_path, env.cwd)
            dst == Resolve(fs, last.input.ending_path, env.cwd)
        IN  /\ dst.err = ""
            /\ fs[dst.at] = FileEntry(last.before[src.at].content)
            /\ src.at \in DOMAIN fs
            /\ fs[src.at] = last.before[src.at]

\* The entries at and below canonical path q, by their path relative to q.
Subtree(f, q) ==
    {<<SubSeq(u, Len(q) + 1, Len(u)), f[u]>> :
        u \in {v \in DOMAIN f : IsSegPrefix(q, v)}}

\* C12: after a successful move the source path names no entry, the target
\* path names an entry that holds what the source held (with everything
\* below it), and every parent directory of the target exists.
C12_MoveRelocates ==
    (/\ last.tool = "rename_jellyfin_media"
     /\ last.input.valid
     /\ last.res.err = Nil) =>
        LET src == Resolve(last.before, last.input.source_path, env.cwd)
            dst == Resolve(fs, last.input.target_path, env.cwd)
        IN  /\ src.err = ""
            /\ Stat(fs, last.input.source_path, env.cwd) # ""
            /\ dst.err = ""
            /\ Subtree(fs, dst.at) = Subtree(last.before, src.at)
            /\ \A n \in 0..(Len(dst.at) - 1) :
                   /\ SubSeq(dst.at, 1, n) \in DOMAIN fs
                   /\ fs[SubSeq(dst.at, 1, n)].kind = "dir"

\* C12 witness: a move succeeded whose target's parent directory did not
\* exist before the call.
C12_Witness ==
    /\ last.tool = "rename_jellyfin_media"
    /\ last.input.valid
    /\ last.res.err = Nil
    /\ Stat(last.before, Dir(last.input.target_path), env.cwd) = "ENOENT"
    /\ Stat(fs, Dir(last.input.target_path), env.cwd) = ""

HasPart(err, part) == \E k \in 1..Len(err.parts) : err.parts[k] = part

IsConflictError(err) == HasPart(err, "target path already exists: ")

\* A recorded move whose target path named an entry before the call and
\* whose two paths both pass ValidatePath.
MoveOntoExisting ==
    /\ last.tool = "rename_jellyfin_media"
    /\ last.input.valid
    /\ Stat(last.before, last.input.target_path, env.cwd) = ""
    /\ ValidatePath(last.input.source_path, env) = Nil
    /\ ValidatePath(last.input.target_path, env) = Nil

RegisteredNames(p) == {Registry(p)[k] : k \in 1..Len(Registry(p))}

\* The loop is at a tool_use block that names no registered tool.
AtUnknownTool ==
    /\ Dispatching
    /\ idx <= Len(message)
    /\ IsToolUse(message[idx])
    /\ message[idx].name \notin RegisteredNames(prog)

\* C14: executeTool on a name that is not exactly the name of a registered
\* tool returns the failure-flagged result "tool not found" with the call's
\* id; no handler is invoked and the filesystem is left as it was.
C14_UnknownToolNotFound ==
    [][ AtUnknownTool =>
          /\ toolResults' =
                Append(toolResults,
                       [type |-> "tool_result", tool_use_id |-> message[idx].id,
                        content |-> Error("tool not found"), is_error |-> TRUE])
          /\ fs' = fs
          /\ pc' = pc
          /\ ~executeTool(prog, message[idx].id, message[idx].name,
                          message[idx].input, fs, env, "ok").invoked ]_vars

\* C14 witness: the loop holds the result of a call to an unregistered tool.
C14_Witness ==
    /\ Dispatching
    /\ \E k \in 1..Len(toolResults) :
          /\ toolResults[k].content = Error("tool not found")
          /\ toolResults[k].is_error

\* The loop is at a tool_use block that names a registered tool.
AtRegisteredTool ==
    /\ Dispatching
    /\ idx <= Len(message)
    /\ IsToolUse(message[idx])
    /\ message[idx].name \in RegisteredNames(prog)

\* The result block executeTool builds from what a handler returned.
ResultOf(id, r) ==
    [type |-> "tool_result", tool_use_id |-> id,
     content |-> IF r.err # Nil THEN r.err ELSE r.response,
     is_error |-> r.err # Nil]

\* C15: every invocation of a registered tool ends in a result block whose
\* failure flag is set exactly when the handler returned an error and whose
\* payload is the error's message or else the handler's output, and the loop
\* goes on with the next block: no handler outcome ends the session.
C15_HandlerOutcomeIsAResult ==
    [][ AtRegisteredTool =>
          \E net \in Nets(message[idx]) :
              LET r == Function(prog, message[idx].name, message[idx].input,
                                fs, env, net)
              IN  /\ ~r.panicked
                  /\ toolResults' = Append(toolResults, ResultOf(message[idx].id, r))
                  /\ pc' = pc
                  /\ idx' = idx + 1 ]_vars

\* C16: a payload that does not parse into the input shape of the registered
\* tool it is sent to yields a failure-flagged result and the loop goes on:
\* the process is not aborted.
C16_MalformedPayloadIsAResult ==
    [][ (AtRegisteredTool /\ ~message[idx].input.valid) =>
          /\ pc' = pc
          /\ Len(toolResults') = Len(toolResults) + 1
          /\ toolResults'[Len(toolResults')].tool_use_id = message[idx].id
          /\ toolResults'[Len(toolResults')].is_error ]_vars

\* The extension of p, compared without regard to case, is on the denylist.
HasDeniedExtension(p) ==
    \E k \in 1..Len(imageVideoExts) : ToLower(Ext(p)) = imageVideoExts[k]

\* C17: read_file on a path with a denied extension never opens the file; it
\* answers with the image-or-video error and no containment error when the
\* path lies inside a root, and with the containment error when the path
\* lies outside every root.
C17_DeniedExtensionAfterContainment ==
    (/\ last.tool = "read_file"
     /\ last.input.valid
     /\ HasDeniedExtension(last.input.path)) =>
        /\ last.res.ops = <<>>
        /\ IF Contained(last.input.path, env)
           THEN /\ HasPart(last.res.err, "cannot read image or video files: ")
                /\ ~IsContainmentError(last.res.err)
           ELSE IsContainmentError(last.res.err)

\* A recorded read_file call that got as far as the file: a limit that is
\* not negative, a path ValidatePath accepts, no denied extension, and an
\* existing regular file at the path.
ReadOfFile ==
    /\ last.tool = "read_file"
    /\ last.input.valid
    /\ last.input.bytes >= 0
    /\ ValidatePath(last.input.path, env) = Nil
    /\ ~HasDeniedExtension(last.input.path)
    /\ Stat(last.before, last.input.path, env.cwd) = ""
    /\ last.before[Resolve(last.before, last.input.path, env.cwd).at].kind = "file"

\* C18: read_file with limit 0 returns the whole content of the file; with a
\* positive limit n it returns a prefix of the content of at most n bytes;
\* both succeed on an empty file, with the empty string.
C18_ReadWholeOrPrefix ==
    ReadOfFile =>
        LET content == last.before[Resolve(last.before, last.input.path, env.cwd).at].content
            out == last.res.response.args[1]
        IN  /\ last.res.err = Nil
            /\ ~last.res.panicked
            /\ last.res.response.parts = <<>>
            /\ last.input.bytes = 0 => out = content
            /\ last.input.bytes > 0 =>
                  /\ Len(out) <= last.input.bytes
                  /\ Len(out) <= Len(content)
                  /\ out = SubSeq(content, 1, Len(out))
            /\ content = <<>> => out = <<>>

\* C18 witness: a read with a positive limit of an empty file succeeded.
C18_Witness ==
    /\ ReadOfFile
    /\ last.input.bytes > 0
    /\ last.before[Resolve(last.before, last.input.path, env.cwd).at].content = <<>>
    /\ last.res.err = Nil

\* The lines of a text, each ended by a newline; a rest without newline
\* counts as a line too.
RECURSIVE TextLines(_, _)
TextLines(s, cur) ==
    IF s = <<>> THEN (IF cur = <<>> THEN <<>> ELSE <<cur>>)
    ELSE IF Head(s) = "\n" THEN <<cur>> \o TextLines(Tail(s), <<>>)
    ELSE TextLines(Tail(s), Append(cur, Head(s)))

\* The entries directly in the directory at canonical path d.
DirectEntries(f, d) == {q \in DOMAIN f : Len(q) = Len(d) + 1 /\ IsSegPrefix(d, q)}

\* The line the listing owes to the entry at q.
LineOf(f, q) ==
    IF f[q].kind = "dir" THEN q[Len(q)] \o <<"/">>
    ELSE q[Len(q)] \o <<" ", "(">> \o Itoa(Len(f[q].content))
                   \o <<" ", "b", "y", "t", "e", "s", ")">>

\* A recorded listing of an existing directory that the tool may list.
ListOfDirectory ==
    /\ last.tool \in {"list_directory", "main.list_directory"}
    /\ last.input.valid
    /\ last.tool = "list_directory" => ValidatePath(last.input.path, env) = Nil
    /\ Stat(last.before, last.input.path, env.cwd) = ""
    /\ last.before[Resolve(last.before, last.input.path, env.cwd).at].kind = "dir"

\* C19: a listing succeeds with exactly one line per direct entry of the
\* directory, name and "/" for a directory, name and byte size for a file,
\* nothing for what lies deeper, and the empty string for an empty directory.
C19_OneLinePerDirectEntry ==
    ListOfDirectory =>
        LET d == Resolve(last.before, last.input.path, env.cwd).at
            lines == TextLines(last.res.response.args[1], <<>>)
        IN  /\ last.res.err = Nil
            /\ last.res.response.parts = <<>>
            /\ fs = last.before
            /\ Len(lines) = Cardinality(DirectEntries(last.before, d))
            /\ {lines[k] : k \in 1..Len(lines)} =
                   {LineOf(last.before, q) : q \in DirectEntries(last.before, d)}
            /\ DirectEntries(last.before, d) = {} => last.res.response.args[1] = <<>>

\* C19 witness: a directory was listed that holds a file and a directory
\* with entries of its own.
C19_Witness ==
    /\ ListOfDirectory
    /\ last.res.err = Nil
    /\ LET d == Resolve(last.before, last.input.path, env.cwd).at
       IN  /\ \E q \in DirectEntries(last.before, d) : last.before[q].kind = "file"
           /\ \E q \in DirectEntries(last.before, d) :
                  /\ last.before[q].kind = "dir"
                  /\ DirectEntries(last.before, q) # {}

\* C20: no step of the program, a tool call included, adds, removes or
\* changes a permitted root: the folders ValidatePath reads and the working
\* directory it resolves them against (which together fix the set of roots)
\* stay what they were at startup.
C20_RootsFixed ==
    [][ /\ PermittedFolders(env') = PermittedFolders(env)
        /\ env'.cwd = env.cwd ]_vars

\* C20 witness: back at the head of the loop after a tool call that passed
\* the containment check and wrote to the filesystem.
C20_Witness ==
    /\ AtTop
    /\ fs # InitFS
    /\ Roots(env) # {}
    /\ \E k \in 1..Len(toolResults) : ~toolResults[k].is_error

\* A required root (movies or shows) is not configured.
RootMissing == env.movies = <<>> \/ env.shows = <<>>

\* C21: when the movies root or the shows root is not configured, the process
\* stops at startup: it never comes to a model invocation or to the dispatch
\* of a tool call, no model response enters the conversation and the
\* filesystem stays untouched.
C21_MissingRootStopsAtStartup ==
    RootMissing =>
        /\ ~AtModelInvocation
        /\ ~Dispatching
        /\ \A i \in 1..Len(convo) : convo[i].role # "assistant"
        /\ fs = InitFS

\* The correlation ids of the tool results collected so far, in order.
ExecutedIds == [k \in 1..Len(toolResults) |-> toolResults[k].tool_use_id]

\* The tool calls among the first n blocks of a response, in block order.
UsesUpTo(blocks, n) == ToolUseIds([content |-> SubSeq(blocks, 1, n)])

\* This step runs a tool handler: it leaves a result, changes the filesystem
\* or ends in the handler's panic.
RunsHandler ==
    \/ Len(toolResults') > Len(toolResults)
    \/ fs' # fs
    \/ pc' = "panicked" /\ pc # "panicked"

\* C22: one activity at a time, in block order: a step that calls the model
\* runs no handler and is taken only when no response is being dispatched; a
\* step that runs a handler serves exactly the next tool_use block of the
\* response and calls no model; and the results collected while a response
\* is dispatched are those of its tool_use blocks so far, in block order.
C22_OneActivityInBlockOrder ==
    [][ /\ InvokesModel => (~Dispatching /\ ~RunsHandler)
        /\ RunsHandler =>
              /\ Dispatching
              /\ idx <= Len(message)
              /\ IsToolUse(message[idx])
              /\ convo' = convo
              /\ Len(toolResults') <= Len(toolResults) + 1
        /\ Dispatching' => ExecutedIds' = UsesUpTo(message', idx' - 1) ]_vars

\* C22 witness: both tool calls of a response of two calls have been served.
C22_Witness ==
    /\ Dispatching
    /\ idx > Len(message)
    /\ Len(toolResults) = 2
    /\ ExecutedIds = UsesUpTo(message, Len(message))

IsPrefix(s, t) == Len(s) <= Len(t) /\ SubSeq(t, 1, Len(s)) = s

\* C23: the conversation history is append-only and complete at every model
\* call: over every step the history before the step is a prefix of the
\* history after it, at most one message longer, and a step that calls the
\* model sends it the whole history accumulated before the call.
C23_HistoryAppendOnly ==
    [][ /\ IsPrefix(convo, convo')
        /\ Len(convo') <= Len(convo) + 1
        /\ InvokesModel => request'.Messages = convo ]_vars

\* C23 witness: the model was called with a history that holds an earlier
\* response and the tool results that answered it.
C23_Witness ==
    /\ Len(request.Messages) >= 3
    /\ IsPrefix(request.Messages, convo)
    /\ \E i \in 1..Len(request.Messages) : HoldsResults(request.Messages[i])

\* The block the loop is at is a read_file call, with any byte limit, on an
\* existing regular file inside a root whose extension is not denied.
AtReadOfAllowedFile ==
    /\ idx <= Len(message)
    /\ IsToolUse(message[idx])
    /\ message[idx].name = "read_file"
    /\ message[idx].input.valid
    /\ Contained(message[idx].input.path, env)
    /\ ~HasDeniedExtension(message[idx].input.path)
    /\ Stat(fs, message[idx].input.path, env.cwd) = ""
    /\ fs[Resolve(fs, message[idx].input.path, env.cwd).at].kind = "file"

\* C24: for every value of the byte limit, negative ones included, a
\* read_file call on an allowed, existing, non-denylisted file ends in a tool
\* result and the loop goes on: the process never ends in a panic at such a
\* call.
C24_AnyLimitIsAResult == ~(pc = "panicked" /\ AtReadOfAllowedFile)

\* The root that a media type selects ("" when the type selects none).
RootOfType(type, e) ==
    IF type = "shows" THEN e.shows ELSE IF type = "movies" THEN e.movies ELSE <<>>

\* The join of the type's root with the subpath is that root or a
\* path-segment descendant of it.
TypedAllowed(input, e) ==
    /\ input.type \in {"shows", "movies"}
    /\ RootOfType(input.type, e) # <<>>
    /\ IsSegPrefix(Names(Abs(RootOfType(input.type, e), e.cwd)),
                   Names(Abs(Join(RootOfType(input.type, e), input.subpath), e.cwd)))

\* C25: list(type, subpath) reads a directory only when the type is "shows"
\* or "movies" and the join of that type's root with the subpath is the root
\* or a path-segment descendant of it, and then it reads within that root;
\* every other call fails with an error, reads nothing and changes nothing.
C25_TypedListStaysInItsRoot ==
    (last.tool = "list_directory" /\ last.input.valid) =>
        /\ last.res.ops # <<>> =>
              /\ TypedAllowed(last.input, env)
              /\ \A k \in 1..Len(last.res.ops) :
                    /\ last.res.ops[k].op = "ReadDir"
                    /\ IsSegPrefix(Names(Abs(RootOfType(last.input.type, env), env.cwd)),
                                   Names(Abs(last.res.ops[k].path, env.cwd)))
        /\ ~TypedAllowed(last.input, env) =>
              /\ last.res.err # Nil
              /\ last.res.ops = <<>>
        /\ fs = last.before

\* C25 witness: a listing of type "shows" whose subpath leads into the
\* movies root was refused without a read.
C25_Witness ==
    /\ last.tool = "list_directory"
    /\ last.input.valid
    /\ last.input.type = "shows"
    /\ env.shows # <<>>
    /\ IsSegPrefix(Names(Abs(env.movies, env.cwd)),
                   Names(Abs(Join(env.shows, last.input.subpath), env.cwd)))
    /\ HasPart(last.res.err, "access denied: path outside of allowed directory")
    /\ last.res.ops = <<>>

\* A candidate that is already an absolute, cleaned path in the shows root
\* or in the movies root.
NamedInMediaRoot(p, e) ==
    /\ IsAbs(p)
    /\ p = Clean(p)
    /\ e.shows # <<>>
    /\ e.movies # <<>>
    /\ \/ IsSegPrefix(Names(Abs(e.shows, e.cwd)), Names(p))
       \/ IsSegPrefix(Names(Abs(e.movies, e.cwd)), Names(p))

\* C26: when the candidates of a copy or a move are already absolute paths
\* inside a permitted root, path resolution returns them as they are: every
\* os call of the tool is made on a path the model named, and the result
\* text of a success reports the two named paths.
C26_AbsoluteCandidateKept ==
    (/\ last.tool \in {"copy_file", "rename_jellyfin_media"}
     /\ last.input.valid
     /\ \A p \in PathArgs(last) : NamedInMediaRoot(p, env)) =>
        /\ \A k \in 1..Len(last.res.ops) : last.res.ops[k].arg \in PathArgs(last)
        /\ last.res.err = Nil =>
              \A k \in 1..Len(last.res.response.args) :
                  last.res.response.args[k] \in PathArgs(last)

\* A recorded copy or move that passed the containment check and whose
\* source path named no entry before the call.
SourceMissing ==
    /\ last.tool \in {"copy_file", "rename_jellyfin_media"}
    /\ last.input.valid
    /\ IF last.tool = "copy_file"
       THEN /\ ValidatePath(last.input.ending_path, env) = Nil
            /\ Stat(last.before, last.input.initial_path, env.cwd) # ""
       ELSE /\ ValidatePath(last.input.source_path, env) = Nil
            /\ ValidatePath(last.input.target_path, env) = Nil
            /\ Stat(last.before, last.input.source_path, env.cwd) # ""

\* C27: a copy or a move whose source path does not exist fails with the
\* source-missing error and leaves the filesystem as it was: no parent
\* directory of the destination and no destination file is created.
C27_MissingSourceChangesNothing ==
    SourceMissing =>
        /\ \/ HasPart(last.res.err, "source file does not exist: ")
           \/ HasPart(last.res.err, "source path does not exist: ")
        /\ fs = last.before

\* The role the message at place i has in a strictly alternating history
\* that a user message opens.
RoleAt(i) == IF i % 2 = 1 THEN "user" ELSE "assistant"

\* C28: in every reachable state the messages of the conversation alternate
\* strictly between the user role and the assistant role, the first being a
\* user message: every model response directly follows exactly one user
\* message (initial prompt, operator line or tool results), and no two user
\* messages and no two model responses are adjacent.
C28_RolesAlternate ==
    \A i \in 1..Len(convo) : convo[i].role = RoleAt(i)

\* C28 witness: a history that holds a tool-result message and, later, an
\* operator line, each answered by the model.
C28_Witness ==
    /\ Len(convo) >= 6
    /\ \E i \in 1..Len(convo) : \E j \in (i + 1)..Len(convo) :
          /\ HoldsResults(convo[i])
          /\ convo[j].role = "user"
          /\ ~HoldsResults(convo[j])
    /\ LastMessage.role = "assistant"

\* The state Run is in once it has read p as its first operator line: the
\* history holds p as a user message, nothing else has happened yet.
AfterFirstLine(p) ==
    /\ convo' = Append(<<>>, NewUserMessage(<<NewTextBlock(p)>>))
    /\ readUserInput'
    /\ message' = <<>>
    /\ toolResults' = <<>>
    /\ fs' = fs

\* C29: RunWithInitialPrompt(p) goes the way of Run fed with p as its first
\* line: it starts in the state Run is in after reading p, and every step of
\* its hand-unrolled first turn is the step of one iteration of the loop from
\* that state: the same model call (with the same failure exit), the same
\* dispatch of the blocks in order, and the same end of the turn (results
\* appended and readUserInput cleared, or readUserInput set).
C29_FirstTurnIsALoopIteration ==
    [][ /\ (pc = "main" /\ pc' = "rwip_infer0") => AfterFirstLine("initialPrompt")
        /\ pc = "rwip_infer0" =>
              (Inference("rwip_dispatch0") /\ request'.Messages = convo)
        /\ (pc = "rwip_dispatch0" /\ idx <= Len(message)) => Dispatch
        /\ (pc = "rwip_dispatch0" /\ idx > Len(message)) => TurnEnd("rwip_top")
        /\ pc \in {"rwip_top", "rwip_infer", "rwip_dispatch"} =>
              \/ GetUserMessage("rwip_infer")
              \/ Inference("rwip_dispatch")
              \/ Dispatch
              \/ TurnEnd("rwip_top") ]_vars

\* C29 witness: the first turn of RunWithInitialPrompt has ended with the
\* results of its tool calls appended and the model to be called next.
C29_Witness ==
    /\ pc = "rwip_top"
    /\ ~readUserInput
    /\ Len(convo) = 3
    /\ HoldsResults(LastMessage)
    /\ request.Messages = <<convo[1]>>

AllRootsUnset == \A i \in 1..3 : PermittedFolders(env)[i] = <<>>

\* C30: in ValidatePath an unset root grants nothing: when all three roots
\* are unset every candidate is rejected, and whenever a candidate is
\* accepted its absolute form begins with a root that is set, so an unset
\* root is never taken for the working directory.
C30_UnsetRootGrantsNothing ==
    vp.done =>
        /\ AllRootsUnset => vp.err # Nil
        /\ vp.err = Nil =>
              \E i \in 1..3 :
                  /\ PermittedFolders(env)[i] # <<>>
                  /\ HasPrefix(Abs(vp.path, env.cwd),
                               Abs(PermittedFolders(env)[i], env.cwd))

\* C30 witness: with all roots unset, a candidate in the working directory
\* and without two dots was rejected as not within the permitted folders.
C30_Witness ==
    /\ vp.done
    /\ AllRootsUnset
    /\ ~ContainsDotDot(vp.path)
    /\ HasPrefix(Abs(vp.path, env.cwd), env.cwd)
    /\ HasPart(vp.err, "path is not within permitted folders: ")

\* The absolute form of q is the shows root or a path-segment descendant.
InShows(q) ==
    /\ env.shows # <<>>
    /\ IsSegPrefix(Names(Abs(env.shows, env.cwd)), Names(Abs(q, env.cwd)))

\* The absolute form of q is the movies root or a path-segment descendant.
InMovies(q) ==
    /\ env.movies # <<>>
    /\ IsSegPrefix(Names(Abs(env.movies, env.cwd)), Names(Abs(q, env.cwd)))

\* The join of the shows root with the candidate stays in the shows root.
ShowsJoinStays == InShows(Join(env.shows, vp.path))

\* C31 as stated: a resolver returns an error or a path inside the shows
\* root or the movies root, and the movies root is used only when the join
\* of the candidate with the shows root leaves the shows root.
C31_JoinResolversShowsFirst ==
    (vp.done /\ vp.err = Nil) =>
        /\ InShows(vp.out) \/ InMovies(vp.out)
        /\ ShowsJoinStays => InShows(vp.out)

\* The candidate itself, made absolute, lies in a root: validateJellyfinPath
\* looks at this before it joins anything.
DirectlyInside ==
    /\ vp.fn = "validateJellyfinPath"
    /\ InShows(vp.path) \/ InMovies(vp.path)

\* C31 amended: a resolver returns an error or a path inside the shows root
\* or the movies root. validateJellyfinPath returns the absolute form of a
\* candidate that itself lies in one of the two roots; in every other case,
\* and always in validateAndResolvePath, the result is the join with the
\* shows root when that join stays in the shows root, and the join with
\* the movies root only when the join with the shows root leaves it.
C31_ResolvedInsideARoot ==
    (vp.done /\ vp.err = Nil) =>
        /\ InShows(vp.out) \/ InMovies(vp.out)
        /\ IF DirectlyInside
           THEN vp.out = Abs(vp.path, env.cwd)
           ELSE IF ShowsJoinStays
                THEN Abs(vp.out, env.cwd) = Abs(Join(env.shows, vp.path), env.cwd)
                ELSE Abs(vp.out, env.cwd) = Abs(Join(env.movies, vp.path), env.cwd)

\* C31 witness: validateAndResolvePath resolved a candidate into the movies
\* root after the join with the shows root had left the shows root.
C31_Witness ==
    /\ vp.done
    /\ vp.fn = "validateAndResolvePath"
    /\ vp.err = Nil
    /\ ~ShowsJoinStays
    /\ InMovies(vp.out)

====
